---- MODULE Spec2Model ----
(***************************************************************************)
(* The means test engine of DocketVoice (src/means_test.py): the           *)
(* MeansTestCalculator methods, calculate_means_test and the reference     *)
(* tables they consult.                                                    *)
(*                                                                         *)
(* Money.  Python computes with floats; here every amount is an exact      *)
(* rational, held as an integer number of 1/60 dollar, so that the         *)
(* amortisation amount / 60 and the product disposable * 60 are exact.     *)
(* Amounts of the input record are whole dollars.  Float rounding and the  *)
(* special floats (nan, inf) are outside the model.                        *)
(*                                                                         *)
(* Python values.  A value of the input record is a tagged record:         *)
(* Absent (the key is not in the dict), PyNone, Text(s) (a str that        *)
(* float() rejects), NumText(d) (a str that float() accepts), Num(d),      *)
(* List(items); a dict is a record whose absent keys hold Absent.          *)
(***************************************************************************)
EXTENDS Integers, Sequences, FiniteSets, TLC

VARIABLES calculator, data, ret, prev

vars == <<calculator, data, ret, prev>>

(***************************************************************************)
(* Bounds of the model.                                                    *)
(***************************************************************************)
MaxDependents == 1

MaxAdditional == 1

MaxLiabilities == 2

MaxClock == 1
\* the most dependents of a record of a large household
MaxLargeDependents == 8

(***************************************************************************)
(* Program constants.                                                      *)
(***************************************************************************)
PlanMonths == 60

DefaultMedian == 5000

PassThreshold == 7700

FailThreshold == 12850

PercentLimit == 25

MaxSizeKey == 8
\* the months of the lookback period of form B122
HistoryMonths == 6

\* One dollar, in the unit of the model (1/60 dollar).
Dollar == PlanMonths

(***************************************************************************)
(* Python values and outcomes.                                             *)
(***************************************************************************)
Absent == [t |-> "absent"]

PyNone == [t |-> "none"]

Text(s) == [t |-> "str", s |-> s]

NumText(d) == [t |-> "numstr", v |-> d]

Num(d) == [t |-> "num", v |-> d]

List(items) == [t |-> "list", items |-> items]

Ok(v) == [ok |-> TRUE, v |-> v]

Raise(e) == [ok |-> FALSE, exc |-> e]

\* A slip: the first argument is returned whatever the second is.
MinOfFirst(a, b) == a

Min(a, b) == IF a <= b THEN a ELSE b

Max(a, b) == IF a >= b THEN a ELSE b

\* dict.get(key, default): a missing key gives the default, a key that is
\* present gives its value, None included.
Get(d, k, default) == IF d[k] = Absent THEN default ELSE d[k]

\* float(x): a number or a numeric string converts, any other string is a
\* ValueError, None (or a list, or a dict) is a TypeError.
Float(x) ==
  CASE x.t = "num" -> Ok(x.v * Dollar)
    [] x.t = "numstr" -> Ok(x.v * Dollar)
    [] x.t = "str" -> Raise("ValueError")
    [] OTHER -> Raise("TypeError")

\* str.lower() on the marital status strings of the model.
Lower(s) ==
  CASE s = "Married" -> "married"
    [] s = "MARRIED" -> "married"
    [] s = "Single" -> "single"
    [] OTHER -> s

(***************************************************************************)
(* Reference tables (MeansTestCalculator.__init__), in whole dollars,      *)
(* indexed by the size key 1..8 (the code's keys "1".."8").                *)
(***************************************************************************)
median_income_data ==
  ("Alabama" :> <<4567, 5678, 6789, 7890, 8901, 9012, 10123, 11234>>) @@
  ("Alaska" :> <<6789, 7890, 8901, 9012, 10123, 11234, 12345, 13456>>) @@
  ("Arizona" :> <<5234, 6345, 7456, 8567, 9678, 10789, 11900, 13011>>) @@
  ("Arkansas" :> <<4123, 5234, 6345, 7456, 8567, 9678, 10789, 11900>>) @@
  ("California" :> <<6789, 7890, 8901, 9012, 10123, 11234, 12345, 13456>>) @@
  ("Colorado" :> <<6123, 7234, 8345, 9456, 10567, 11678, 12789, 13900>>) @@
  ("Connecticut" :> <<6789, 7890, 8901, 9012, 10123, 11234, 12345, 13456>>) @@
  ("Delaware" :> <<6123, 7234, 8345, 9456, 10567, 11678, 12789, 13900>>) @@
  ("Florida" :> <<5234, 6345, 7456, 8567, 9678, 10789, 11900, 13011>>) @@
  ("Georgia" :> <<5234, 6345, 7456, 8567, 9678, 10789, 11900, 13011>>) @@
  ("Hawaii" :> <<6789, 7890, 8901, 9012, 10123, 11234, 12345, 13456>>) @@
  ("Idaho" :> <<4567, 5678, 6789, 7890, 8901, 9012, 10123, 11234>>) @@
  ("Illinois" :> <<6123, 7234, 8345, 9456, 10567, 11678, 12789, 13900>>) @@
  ("Indiana" :> <<5234, 6345, 7456, 8567, 9678, 10789, 11900, 13011>>) @@
  ("Iowa" :> <<5234, 6345, 7456, 8567, 9678, 10789, 11900, 13011>>) @@
  ("Kansas" :> <<5234, 6345, 7456, 8567, 9678, 10789, 11900, 13011>>) @@
  ("Kentucky" :> <<4567, 5678, 6789, 7890, 8901, 9012, 10123, 11234>>) @@
  ("Louisiana" :> <<4567, 5678, 6789, 7890, 8901, 9012, 10123, 11234>>) @@
  ("Maine" :> <<5234, 6345, 7456, 8567, 9678, 10789, 11900, 13011>>) @@
  ("Maryland" :> <<6789, 7890, 8901, 9012, 10123, 11234, 12345, 13456>>) @@
  ("Massachusetts" :> <<6789, 7890, 8901, 9012, 10123, 11234, 12345, 13456>>) @@
  ("Michigan" :> <<5234, 6345, 7456, 8567, 9678, 10789, 11900, 13011>>) @@
  ("Minnesota" :> <<6123, 7234, 8345, 9456, 10567, 11678, 12789, 13900>>) @@
  ("Mississippi" :> <<4123, 5234, 6345, 7456, 8567, 9678, 10789, 11900>>) @@
  ("Missouri" :> <<5234, 6345, 7456, 8567, 9678, 10789, 11900, 13011>>) @@
  ("Montana" :> <<4567, 5678, 6789, 7890, 8901, 9012, 10123, 11234>>) @@
  ("Nebraska" :> <<5234, 6345, 7456, 8567, 9678, 10789, 11900, 13011>>) @@
  ("Nevada" :> <<5678, 6789, 7890, 8901, 9012, 10123, 11234, 12345>>) @@
  ("New Hampshire" :> <<6123, 7234, 8345, 9456, 10567, 11678, 12789, 13900>>) @@
  ("New Jersey" :> <<6789, 7890, 8901, 9012, 10123, 11234, 12345, 13456>>) @@
  ("New Mexico" :> <<4567, 5678, 6789, 7890, 8901, 9012, 10123, 11234>>) @@
  ("New York" :> <<6789, 7890, 8901, 9012, 10123, 11234, 12345, 13456>>) @@
  ("North Carolina" :> <<5234, 6345, 7456, 8567, 9678, 10789, 11900, 13011>>) @@
  ("North Dakota" :> <<5234, 6345, 7456, 8567, 9678, 10789, 11900, 13011>>) @@
  ("Ohio" :> <<5234, 6345, 7456, 8567, 9678, 10789, 11900, 13011>>) @@
  ("Oklahoma" :> <<4567, 5678, 6789, 7890, 8901, 9012, 10123, 11234>>) @@
  ("Oregon" :> <<5678, 6789, 7890, 8901, 9012, 10123, 11234, 12345>>) @@
  ("Pennsylvania" :> <<5678, 6789, 7890, 8901, 9012, 10123, 11234, 12345>>) @@
  ("Rhode Island" :> <<5678, 6789, 7890, 8901, 9012, 10123, 11234, 12345>>) @@
  ("South Carolina" :> <<4567, 5678, 6789, 7890, 8901, 9012, 10123, 11234>>) @@
  ("South Dakota" :> <<4567, 5678, 6789, 7890, 8901, 9012, 10123, 11234>>) @@
  ("Tennessee" :> <<4567, 5678, 6789, 7890, 8901, 9012, 10123, 11234>>) @@
  ("Texas" :> <<5234, 6345, 7456, 8567, 9678, 10789, 11900, 13011>>) @@
  ("Utah" :> <<5234, 6345, 7456, 8567, 9678, 10789, 11900, 13011>>) @@
  ("Vermont" :> <<5234, 6345, 7456, 8567, 9678, 10789, 11900, 13011>>) @@
  ("Virginia" :> <<6123, 7234, 8345, 9456, 10567, 11678, 12789, 13900>>) @@
  ("Washington" :> <<6123, 7234, 8345, 9456, 10567, 11678, 12789, 13900>>) @@
  ("West Virginia" :> <<4123, 5234, 6345, 7456, 8567, 9678, 10789, 11900>>) @@
  ("Wisconsin" :> <<5234, 6345, 7456, 8567, 9678, 10789, 11900, 13011>>) @@
  ("Wyoming" :> <<4567, 5678, 6789, 7890, 8901, 9012, 10123, 11234>>)

irs_standards ==
  [food |-> <<500, 600, 700, 800, 900, 1000, 1100, 1200>>,
   housekeeping_supplies |-> <<50, 60, 70, 80, 90, 100, 110, 120>>,
   apparel_and_services |-> <<200, 250, 300, 350, 400, 450, 500, 550>>,
   personal_care |-> <<50, 60, 70, 80, 90, 100, 110, 120>>,
   miscellaneous |-> <<100, 120, 140, 160, 180, 200, 220, 240>>]

housing_standards ==
  [housing_and_utilities |-> <<800, 1000, 1200, 1400, 1600, 1800, 2000, 2200>>]

transportation_standards ==
  [ownership_costs |-> <<500, 500, 500, 500, 500, 500, 500, 500>>,
   operating_costs |-> <<200, 200, 200, 200, 200, 200, 200, 200>>]

\* MeansTestCalculator(): the attributes that __init__ sets.  The methods
\* that read them take the instance as `self`.
MeansTestCalculator ==
  [median_income_data |-> median_income_data,
   irs_standards |-> irs_standards,
   housing_standards |-> housing_standards,
   transportation_standards |-> transportation_standards]

\* table.get(size_key, default), as float.
Lookup(row, size_key, default) ==
  IF size_key \in DOMAIN row THEN row[size_key] * Dollar ELSE default * Dollar

(***************************************************************************)
(* MeansTestCalculator.                                                    *)
(***************************************************************************)
\* The loop of calculate_current_monthly_income: an entry whose amount
\* float() rejects is skipped, every other amount is added.  The entries
\* of the model are dicts.
RECURSIVE SumAdditional(_)
SumAdditional(sources) ==
  IF sources = <<>> THEN 0
  ELSE LET amount == Float(Get(Head(sources), "amount", Num(0)))
       IN (IF amount.ok THEN amount.v ELSE 0) + SumAdditional(Tail(sources))

calculate_current_monthly_income(d) ==
  LET base == Float(Get(d, "monthly_income", Num(0)))
      additional_income == Get(d, "additional_income", List(<<>>))
  IN IF ~base.ok THEN 0
     ELSE IF additional_income.t # "list" THEN 0
     ELSE base.v + SumAdditional(additional_income.items)

\* A slip: the cap of the table lookups is applied to the size itself.
get_household_size_capped(d) ==
  LET marital == Get(d, "marital_status", Text(""))
      dependents == Get(d, "dependents", List(<<>>))
  IN IF marital.t # "str" THEN Raise("AttributeError")
     ELSE IF dependents.t # "list" THEN Raise("TypeError")
     ELSE Ok(Min(MaxSizeKey,
                 1 + (IF Lower(marital.s) \in {"married", "marriage"} THEN 1 ELSE 0)
                   + Len(dependents.items)))

get_household_size(d) ==
  LET marital == Get(d, "marital_status", Text(""))
      dependents == Get(d, "dependents", List(<<>>))
  IN IF marital.t # "str" THEN Raise("AttributeError")
     ELSE IF dependents.t # "list" THEN Raise("TypeError")
     ELSE Ok(1 + (IF Lower(marital.s) \in {"married", "marriage"} THEN 1 ELSE 0)
               + Len(dependents.items))

\* A slip: every household reads the entry of one person.
SizeKeyOfOne(household_size) == 1

\* A slip: the household size is used as the key without the cap.
SizeKeyUncapped(household_size) == household_size

\* str(min(household_size, 8)); the keys of the model are the numbers.
SizeKey(household_size) == Min(household_size, MaxSizeKey)

\* A slip: a state without a row gets the California row.
get_state_median_income_no_fallback(self, state, household_size) ==
  LET state_data ==
        IF state.t = "str" /\ state.s \in DOMAIN self.median_income_data
        THEN self.median_income_data[state.s]
        ELSE self.median_income_data["California"]
      size_key == SizeKey(household_size)
  IN Lookup(state_data, size_key, DefaultMedian)

get_state_median_income(self, state, household_size) ==
  LET state_data ==
        IF state.t = "str" /\ state.s \in DOMAIN self.median_income_data
        THEN self.median_income_data[state.s] ELSE <<>>
      size_key == SizeKey(household_size)
  IN Lookup(state_data, size_key, DefaultMedian)

ExpenseKeys ==
  <<"rent_mortgage", "utilities", "car_payment", "car_insurance",
    "gas_maintenance", "health_insurance", "medical_expenses",
    "phone_internet", "entertainment">>

NoExpenses == [k \in {ExpenseKeys[i] : i \in DOMAIN ExpenseKeys} |-> Absent]

\* The first float() of calculate_allowable_expenses that raises, in the
\* order the code evaluates them; 0 when none does.
FirstBadExpense(monthly_expenses) ==
  LET bad == {i \in DOMAIN ExpenseKeys :
                ~Float(Get(monthly_expenses, ExpenseKeys[i], Num(0))).ok}
  IN IF bad = {} THEN 0 ELSE CHOOSE i \in bad : \A j \in bad : i <= j

calculate_allowable_expenses(self, d, household_size) ==
  LET monthly_expenses == Get(d, "monthly_expenses", NoExpenses)
      size_key == SizeKey(household_size)
      F(k) == Float(Get(monthly_expenses, k, Num(0))).v
      first_bad == FirstBadExpense(monthly_expenses)
      actual_housing == F("rent_mortgage") + F("utilities")
      irs_housing == Lookup(self.housing_standards.housing_and_utilities, size_key, 1000)
      actual_transportation ==
        F("car_payment") + F("car_insurance") + F("gas_maintenance")
      irs_transportation ==
        Lookup(self.transportation_standards.ownership_costs, size_key, 500)
        + Lookup(self.transportation_standards.operating_costs, size_key, 200)
  IN IF first_bad # 0
     THEN Raise(Float(Get(monthly_expenses, ExpenseKeys[first_bad], Num(0))).exc)
     ELSE Ok([food |-> Lookup(self.irs_standards.food, size_key, 500),
              housekeeping_supplies |->
                Lookup(self.irs_standards.housekeeping_supplies, size_key, 50),
              apparel_and_services |->
                Lookup(self.irs_standards.apparel_and_services, size_key, 200),
              personal_care |-> Lookup(self.irs_standards.personal_care, size_key, 50),
              miscellaneous |-> Lookup(self.irs_standards.miscellaneous, size_key, 100),
              housing_and_utilities |-> Min(actual_housing, irs_housing),
              transportation |-> Min(actual_transportation, irs_transportation),
              health_insurance |-> F("health_insurance"),
              medical_expenses |-> F("medical_expenses"),
              phone_internet |-> F("phone_internet"),
              entertainment |-> F("entertainment")])

\* sum(allowable_expenses.values())
SumExpenses(e) ==
  e.food + e.housekeeping_supplies + e.apparel_and_services + e.personal_care
  + e.miscellaneous + e.housing_and_utilities + e.transportation
  + e.health_insurance + e.medical_expenses + e.phone_internet + e.entertainment

\* data.get('liabilities', []); the records of the model hold a list or
\* nothing under this key.
Liabilities(d) == Get(d, "liabilities", List(<<>>)).items

\* A slip: the monthly payment of every liability is added, whatever its tag.
RECURSIVE SumSecuredAnyTag(_)
SumSecuredAnyTag(liabilities) ==
  IF liabilities = <<>> THEN 0
  ELSE LET payment == Float(Get(Head(liabilities), "monthly_payment", Num(0)))
       IN (IF payment.ok THEN payment.v ELSE 0)
          + SumSecuredAnyTag(Tail(liabilities))

RECURSIVE SumSecured(_)
SumSecured(liabilities) ==
  IF liabilities = <<>> THEN 0
  ELSE LET liability == Head(liabilities)
           payment == Float(Get(liability, "monthly_payment", Num(0)))
       IN (IF Get(liability, "type", PyNone) = Text("secured") /\ payment.ok
           THEN payment.v ELSE 0) + SumSecured(Tail(liabilities))

calculate_secured_debt_payments(d) == SumSecured(Liabilities(d))

\* A slip: a priority debt that states a monthly payment counts with it.
RECURSIVE SumPriorityStatedPayment(_)
SumPriorityStatedPayment(liabilities) ==
  IF liabilities = <<>> THEN 0
  ELSE LET liability == Head(liabilities)
           amount == Float(Get(liability, "amount", Num(0)))
           payment == Float(liability.monthly_payment)
       IN (IF Get(liability, "type", PyNone) # Text("priority") THEN 0
           ELSE IF payment.ok THEN payment.v
           ELSE IF amount.ok THEN amount.v \div PlanMonths ELSE 0)
          + SumPriorityStatedPayment(Tail(liabilities))

RECURSIVE SumPriority(_)
SumPriority(liabilities) ==
  IF liabilities = <<>> THEN 0
  ELSE LET liability == Head(liabilities)
           amount == Float(Get(liability, "amount", Num(0)))
       IN (IF Get(liability, "type", PyNone) = Text("priority") /\ amount.ok
           THEN amount.v \div PlanMonths ELSE 0) + SumPriority(Tail(liabilities))

calculate_priority_debt_payments(d) == SumPriority(Liabilities(d))

RECURSIVE SumUnsecured(_)
SumUnsecured(liabilities) ==
  IF liabilities = <<>> THEN 0
  ELSE LET liability == Head(liabilities)
           amount == Float(Get(liability, "amount", Num(0)))
       IN (IF Get(liability, "type", PyNone) = Text("unsecured") /\ amount.ok
           THEN amount.v ELSE 0) + SumUnsecured(Tail(liabilities))

calculate_unsecured_debt(d) == SumUnsecured(Liabilities(d))

\* A slip: the difference is returned as it is.
NoFloor(x) == x

\* max(0, disposable_income)
FloorAtZero(x) == Max(0, x)

calculate_disposable_income(self, d) ==
  LET current_monthly_income == calculate_current_monthly_income(d)
      household_size == get_household_size(d)
      allowable_expenses == calculate_allowable_expenses(self, d, household_size.v)
      disposable_income ==
        current_monthly_income - SumExpenses(allowable_expenses.v)
        - calculate_secured_debt_payments(d) - calculate_priority_debt_payments(d)
  IN IF ~household_size.ok THEN household_size
     ELSE IF ~allowable_expenses.ok THEN allowable_expenses
     ELSE Ok(FloorAtZero(disposable_income))

\* f"{x:,.2f}": the amount rounded to cents (a tie cannot occur for a
\* multiple of 1/60 dollar); the text is determined by the number of cents.
Fmt2(x) == (10 * x + 3) \div 6

NoJurisdiction == [state |-> Absent]

\* A slip: chapter_7_eligible is never cleared.
VerdictEligibleStuck(result, chapter_7_eligible, chapter_13_required) ==
  [result |-> result, chapter_7_eligible |-> TRUE,
   chapter_13_required |-> chapter_13_required]

\* One branch of the threshold decision: the three names it assigns.
Verdict(result, chapter_7_eligible, chapter_13_required) ==
  [result |-> result, chapter_7_eligible |-> chapter_7_eligible,
   chapter_13_required |-> chapter_13_required]

FiveYearDisposableOffByOne(disposable_income) ==
  disposable_income * (PlanMonths - 1)

\* five_year_disposable = disposable_income * 60
FiveYearDisposable(disposable_income) == disposable_income * PlanMonths

\* A slip: the lower threshold is included in the automatic pass.
BelowPassThresholdInclusive(five_year_disposable) ==
  five_year_disposable <= PassThreshold * Dollar

\* five_year_disposable < 7700
BelowPassThreshold(five_year_disposable) ==
  five_year_disposable < PassThreshold * Dollar

\* A slip: the upper threshold with a digit too many.
AboveFailThresholdTypo(five_year_disposable) ==
  five_year_disposable > 10 * FailThreshold * Dollar

\* five_year_disposable > 12850
AboveFailThreshold(five_year_disposable) ==
  five_year_disposable > FailThreshold * Dollar

\* A slip: exactly 25 percent passes.
PercentageFailsStrict(five_year_disposable, unsecured_debt) ==
  five_year_disposable * 100 > PercentLimit * unsecured_debt

\* percentage = (five_year_disposable / unsecured_debt) * 100;
\* percentage >= 25, for unsecured_debt > 0.
PercentageFails(five_year_disposable, unsecured_debt) ==
  five_year_disposable * 100 >= PercentLimit * unsecured_debt

\* The threshold decision of Step 2.
Step2Verdict(five_year_disposable, unsecured_debt) ==
  IF BelowPassThreshold(five_year_disposable)
  THEN Verdict("PASS", TRUE, FALSE)
  ELSE IF AboveFailThreshold(five_year_disposable)
  THEN Verdict("FAIL", FALSE, TRUE)
  ELSE IF unsecured_debt > 0
       THEN IF PercentageFails(five_year_disposable, unsecured_debt)
            THEN Verdict("FAIL", FALSE, TRUE)
            ELSE Verdict("PASS", TRUE, FALSE)
       ELSE Verdict("PASS", TRUE, FALSE)

\* A slip: an income equal to the median goes on to Step 2.
Step1PassesStrict(current_monthly_income, state_median_income) ==
  current_monthly_income < state_median_income

\* A slip: the operands of the comparison exchanged.
Step1PassesSwapped(current_monthly_income, state_median_income) ==
  state_median_income <= current_monthly_income

\* The comparison of Step 1.
Step1Passes(current_monthly_income, state_median_income) ==
  current_monthly_income <= state_median_income

\* A slip: the final result repeats the Step 1 result.
FinalResultOfStep1(step2_result) == "FAIL"

\* "means_test_result": result, in the result of Step 2.
FinalResult(step2_result) == step2_result

\* A slip: a record without a state gets the state 'Unknown' of the report.
StateOfUnknown(d) ==
  Get(Get(d, "court_jurisdiction", NoJurisdiction), "state", Text("Unknown"))

\* data.get('court_jurisdiction', {}).get('state', 'California')
StateOf(d) ==
  Get(Get(d, "court_jurisdiction", NoJurisdiction), "state", Text("California"))

determine_means_test_result(self, d) ==
  LET state == StateOf(d)
      hs == get_household_size(d)
      household_size == hs.v
      current_monthly_income == calculate_current_monthly_income(d)
      state_median_income == get_state_median_income(self, state, household_size)
      di == calculate_disposable_income(self, d)
      disposable_income == di.v
      five_year_disposable == FiveYearDisposable(disposable_income)
      v == Step2Verdict(five_year_disposable, calculate_unsecured_debt(d))
  IN IF ~hs.ok THEN hs
     ELSE IF Step1Passes(current_monthly_income, state_median_income)
     THEN Ok([step1_result |-> "PASS",
              step1_reason |->
                [text |-> "Current monthly income ($%) is below state median income ($%)",
                 args |-> <<Fmt2(current_monthly_income), Fmt2(state_median_income)>>],
              step2_required |-> FALSE,
              means_test_result |-> "PASS",
              chapter_7_eligible |-> TRUE,
              chapter_13_required |-> FALSE,
              details |->
                [current_monthly_income |-> current_monthly_income,
                 state_median_income |-> state_median_income,
                 household_size |-> household_size,
                 state |-> state]])
     ELSE IF ~di.ok THEN di
     ELSE Ok([step1_result |-> "FAIL",
              step1_reason |->
                [text |-> "Current monthly income ($%) is above state median income ($%)",
                 args |-> <<Fmt2(current_monthly_income), Fmt2(state_median_income)>>],
              step2_required |-> TRUE,
              step2_result |-> v.result,
              step2_reason |->
                [text |-> IF v.result = "FAIL"
                          THEN "Five-year disposable income ($%) exceeds threshold"
                          ELSE "Five-year disposable income ($%) is below threshold",
                 args |-> <<Fmt2(five_year_disposable)>>],
              means_test_result |-> FinalResult(v.result),
              chapter_7_eligible |-> v.chapter_7_eligible,
              chapter_13_required |-> v.chapter_13_required,
              details |->
                [current_monthly_income |-> current_monthly_income,
                 state_median_income |-> state_median_income,
                 disposable_monthly_income |-> disposable_income,
                 five_year_disposable_income |-> five_year_disposable,
                 household_size |-> household_size,
                 state |-> state,
                 allowable_expenses |->
                   calculate_allowable_expenses(self, d, household_size).v,
                 secured_payments |-> calculate_secured_debt_payments(d),
                 priority_payments |-> calculate_priority_debt_payments(d)]])

\* A slip: the version is stamped from the clock too.
calculate_means_test_clocked(d, now) ==
  LET result == determine_means_test_result(MeansTestCalculator, d)
  IN IF ~result.ok THEN result
     ELSE Ok([calculation_date |-> now, calculation_version |-> now] @@ result.v)

\* calculate_means_test at the time `now` (datetime.now()).
calculate_means_test(d, now) ==
  LET result == determine_means_test_result(MeansTestCalculator, d)
  IN IF ~result.ok THEN result
     ELSE Ok([calculation_date |-> now, calculation_version |-> "2025.1"] @@ result.v)

\* d.get(k, default) on a result or its details, whose absent keys are not
\* in the record.
GetKey(d, k, default) == IF k \in DOMAIN d THEN d[k] ELSE default

YesNo(b) == IF b THEN "Yes" ELSE "No"

\* generate_means_test_report: the lines of the report that depend on the
\* arguments, each amount as the cents that ${x:,.2f} prints.
generate_means_test_report(d, means_test_result) ==
  LET details == GetKey(means_test_result, "details", <<>>)
      allowable_expenses == GetKey(details, "allowable_expenses", <<>>)
      step2 ==
        [result |-> GetKey(means_test_result, "step2_result", "Unknown"),
         reason |-> GetKey(means_test_result, "step2_reason", "Unknown"),
         current_monthly_income |->
           Fmt2(GetKey(details, "current_monthly_income", 0)),
         allowable_expenses |->
           [k \in DOMAIN allowable_expenses |-> Fmt2(allowable_expenses[k])],
         total_allowable_expenses |->
           IF allowable_expenses = <<>> THEN Fmt2(0)
           ELSE Fmt2(SumExpenses(allowable_expenses)),
         secured_payments |-> Fmt2(GetKey(details, "secured_payments", 0)),
         priority_payments |-> Fmt2(GetKey(details, "priority_payments", 0)),
         disposable_monthly_income |->
           Fmt2(GetKey(details, "disposable_monthly_income", 0)),
         five_year_disposable_income |->
           Fmt2(GetKey(details, "five_year_disposable_income", 0))]
  IN [calculation_date |->
        IF "calculation_date" \in DOMAIN means_test_result
        THEN [at |-> means_test_result.calculation_date]
        ELSE [unknown |-> TRUE],
      state |-> Get(Get(d, "court_jurisdiction", NoJurisdiction),
                    "state", Text("Unknown")),
      step1_result |-> GetKey(means_test_result, "step1_result", "Unknown"),
      step1_reason |-> GetKey(means_test_result, "step1_reason", "Unknown"),
      current_monthly_income |->
        Fmt2(GetKey(details, "current_monthly_income", 0)),
      state_median_income |-> Fmt2(GetKey(details, "state_median_income", 0)),
      household_size |-> GetKey(details, "household_size", 0),
      step2 |-> IF GetKey(means_test_result, "step2_required", FALSE)
                THEN <<step2>> ELSE <<>>,
      means_test_result |->
        GetKey(means_test_result, "means_test_result", "Unknown"),
      chapter_7_eligible |->
        YesNo(GetKey(means_test_result, "chapter_7_eligible", FALSE)),
      chapter_13_required |->
        YesNo(GetKey(means_test_result, "chapter_13_required", FALSE)),
      recommendation |->
        IF GetKey(means_test_result, "chapter_7_eligible", FALSE)
        THEN "You appear to be eligible for Chapter 7 bankruptcy"
        ELSE "You may not be eligible for Chapter 7 bankruptcy"]

(***************************************************************************)
(* The input records.  Records that vary the household and the             *)
(* jurisdiction; records that vary the income fields and the expenses;     *)
(* single-filer California records above the median                        *)
(* that vary the liabilities around the two thresholds; large households;  *)
(* records with a six-month income history; records that vary the actual   *)
(* expenses; records with unusual liabilities; records of the District of  *)
(* Columbia.                                                               *)
(***************************************************************************)
SeqsUpTo(S, n) == UNION {[1..k -> S] : k \in 0..n}

Dependent == [name |-> "Kim", age |-> "7", relationship |-> "child"]

MaritalValues == {Absent, PyNone, Text("Married"), Text("single")}

DependentValues ==
  {Absent, PyNone} \cup {List(s) : s \in SeqsUpTo({Dependent}, MaxDependents)}

JurisdictionValues ==
  {Absent, NoJurisdiction, [state |-> Text("Alabama")], [state |-> Text("Atlantis")]}

IncomeValues ==
  {Num(5000), Num(6789), NumText(6800), Text("about six thousand"), PyNone}

IncomeSources ==
  {[amount |-> Num(11), description |-> "gig"],
   [amount |-> Text("some"), description |-> "gig"]}

AdditionalValues ==
  {Absent, PyNone} \cup {List(s) : s \in SeqsUpTo(IncomeSources, MaxAdditional)}

Expenses(rent, car, health) ==
  [NoExpenses EXCEPT !.rent_mortgage = rent, !.car_payment = car,
                     !.health_insurance = health]

Secured(payment) ==
  [creditor |-> "bank", type |-> Text("secured"), amount |-> Num(9000),
   monthly_payment |-> Num(payment)]

Priority(amount) ==
  [creditor |-> "irs", type |-> Text("priority"), amount |-> Num(amount),
   monthly_payment |-> Absent]

Unsecured(amount) ==
  [creditor |-> "card", type |-> Text("unsecured"), amount |-> Num(amount),
   monthly_payment |-> Absent]

LiabilityValues ==
  {Secured(86), Priority(40), Priority(50), Unsecured(20600), Unsecured(51400)}

HouseholdRecords ==
  {[marital_status |-> m, dependents |-> dep, court_jurisdiction |-> cj,
    monthly_income |-> inc, additional_income |-> Absent,
    monthly_expenses |-> exp, liabilities |-> Absent, form_b122 |-> Absent] :
     m \in MaritalValues, dep \in DependentValues, cj \in JurisdictionValues,
     inc \in {Num(5000), Num(6789), NumText(6800)},
     exp \in {Absent, Expenses(Num(900), Absent, Absent)}}

IncomeRecords ==
  {[marital_status |-> m, dependents |-> Absent, court_jurisdiction |-> cj,
    monthly_income |-> inc, additional_income |-> add,
    monthly_expenses |-> exp, liabilities |-> Absent, form_b122 |-> Absent] :
     m \in {Absent, Text("Married")},
     cj \in {Absent, [state |-> Text("Atlantis")]},
     inc \in IncomeValues, add \in AdditionalValues,
     exp \in {Absent, Expenses(Num(900), Absent, Absent),
              Expenses(Num(900), Absent, Text("unknown"))}}

ThresholdRecords ==
  {[marital_status |-> Text("single"), dependents |-> List(<<>>),
    court_jurisdiction |-> [state |-> Text("California")],
    monthly_income |-> inc, additional_income |-> Absent,
    monthly_expenses |-> exp, liabilities |-> List(ls), form_b122 |-> Absent] :
     inc \in {Num(6800), Num(6886)},
     exp \in {Expenses(Num(900), Num(700), Num(4185)),
              Expenses(Num(900), Num(700), Num(4271))},
     ls \in SeqsUpTo(LiabilityValues, MaxLiabilities)}

\* Households of more than eight people, with an income at or just above
\* the California median of the size-8 row and housing and transportation
\* costs above every standard.
LargeHouseholdRecords ==
  {[marital_status |-> m,
    dependents |-> List([i \in 1..n |-> Dependent]),
    court_jurisdiction |-> [state |-> Text(st)],
    monthly_income |-> Num(inc), additional_income |-> Absent,
    monthly_expenses |-> Expenses(Num(9000), Num(7000), Absent),
    liabilities |-> Absent, form_b122 |-> Absent] :
     m \in {Absent, Text("Married"), Text("divorced"), Text("separated"),
            Text("widowed")},
     n \in (MaxSizeKey - 1)..MaxLargeDependents,
     st \in {"California", "Atlantis"},
     inc \in {13456, 13457}}

\* Single-filer California records that carry the six monthly incomes of
\* form B122 (month_1_income .. month_6_income) next to the monthly income.
\* No function of the engine reads them.
HistoryRecords ==
  {[marital_status |-> Text("single"), dependents |-> List(<<>>),
    court_jurisdiction |-> [state |-> Text("California")],
    monthly_income |-> inc, additional_income |-> Absent,
    monthly_expenses |-> Expenses(Num(900), Num(700), Absent),
    liabilities |-> Absent,
    form_b122 |-> List([i \in 1..HistoryMonths |-> Num(month)])] :
     inc \in {Num(5000), Num(6800)}, month \in {6000, 7000}}

\* The actual expenses of the housing and the transportation items, below
\* and above the standards of one and of two people, with the health
\* insurance missing, large or negative.
ExpenseValues ==
  {[NoExpenses EXCEPT !.rent_mortgage = Num(500), !.utilities = utilities,
                      !.car_payment = Num(300), !.car_insurance = car_insurance,
                      !.gas_maintenance = gas_maintenance,
                      !.health_insurance = health_insurance] :
     utilities \in {Absent, Num(200), Num(400)},
     car_insurance \in {Absent, Num(150)},
     gas_maintenance \in {Absent, Num(300)},
     health_insurance \in {Absent, Num(4185), Num(-100)}}

\* Records of one or two people that vary the actual expenses, without
\* liabilities or with liabilities of negative amounts.  Their state has no
\* row, so that Step 2 runs at either household size.
ExpenseRecords ==
  {[marital_status |-> m, dependents |-> List(<<>>),
    court_jurisdiction |-> [state |-> Text("Atlantis")],
    monthly_income |-> Num(6000), additional_income |-> Absent,
    monthly_expenses |-> exp, liabilities |-> ls, form_b122 |-> Absent] :
     m \in {Text("single"), Text("Married")}, exp \in ExpenseValues,
     ls \in {Absent,
             List(<<Secured(-86), Priority(-60), Unsecured(-1000)>>)}}

\* Liabilities whose tag, amount or monthly payment is unusual: a secured
\* debt with an unparseable or a missing monthly payment, a priority debt
\* that states a monthly payment, a debt with another tag.
DebtValues ==
  {Secured(86),
   [Secured(86) EXCEPT !.monthly_payment = Text("unknown")],
   [Secured(86) EXCEPT !.monthly_payment = Absent],
   [Priority(120) EXCEPT !.monthly_payment = Num(75)],
   [Unsecured(5000) EXCEPT !.type = Text("student_loan"),
                           !.monthly_payment = Num(50)]}

\* Single-filer California records above the median that vary the tags and
\* the payments of the liabilities.
DebtRecords ==
  {[marital_status |-> Text("single"), dependents |-> List(<<>>),
    court_jurisdiction |-> [state |-> Text("California")],
    monthly_income |-> Num(6800), additional_income |-> Absent,
    monthly_expenses |-> Expenses(Num(900), Num(700), Num(4185)),
    liabilities |-> List(ls), form_b122 |-> Absent] :
     ls \in SeqsUpTo(DebtValues, MaxLiabilities)}

\* Records of a debtor of the District of Columbia.
DistrictRecords ==
  {[marital_status |-> Text("single"), dependents |-> dep,
    court_jurisdiction |-> [state |-> Text("District of Columbia")],
    monthly_income |-> inc, additional_income |-> Absent,
    monthly_expenses |-> Expenses(Num(900), Num(700), Absent),
    liabilities |-> Absent, form_b122 |-> Absent] :
     dep \in {List(<<>>), List(<<Dependent>>)}, inc \in {Num(5000), Num(6800)}}

InputRecords ==
  HouseholdRecords \cup IncomeRecords \cup ThresholdRecords
  \cup LargeHouseholdRecords \cup HistoryRecords \cup ExpenseRecords
  \cup DebtRecords \cup DistrictRecords

\* A table row without the entry of one size key.
Without(row, size_key) == [k \in DOMAIN row \ {size_key} |-> row[k]]

\* Calculators whose tables were replaced (the tables are attributes of the
\* instance, "updated regularly") by a version in which one row lacks the
\* entry of size 1.
DefectiveCalculators ==
  {[MeansTestCalculator EXCEPT !.median_income_data["California"] = Without(@, 1)],
   [MeansTestCalculator EXCEPT !.irs_standards.food = Without(@, 1)],
   [MeansTestCalculator EXCEPT
      !.housing_standards.housing_and_utilities = Without(@, 1)],
   [MeansTestCalculator EXCEPT
      !.transportation_standards.operating_costs = Without(@, 1)]}

\* The records handed to a calculator with replaced tables.
DefectRecords ==
  {[marital_status |-> Text("single"), dependents |-> dep,
    court_jurisdiction |-> [state |-> Text("California")],
    monthly_income |-> inc, additional_income |-> Absent,
    monthly_expenses |-> Expenses(Num(900), Num(700), Absent),
    liabilities |-> Absent, form_b122 |-> Absent] :
     dep \in {List(<<>>), List(<<Dependent>>)}, inc \in {Num(5000), Num(6800)}}

(***************************************************************************)
(* The state machine: a calculator instance, a record, the outcome of the  *)
(* last call (ret) and the outcome of the call of calculate_means_test     *)
(* before the last one (prev).                                             *)
(***************************************************************************)
NoCall == [fn |-> "none"]

Call(fn, out) == [fn |-> fn, out |-> out]

Init ==
  /\ \/ calculator = MeansTestCalculator /\ data \in InputRecords
     \/ calculator \in DefectiveCalculators /\ data \in DefectRecords
  /\ ret = NoCall
  /\ prev = NoCall

CalculateCurrentMonthlyIncome ==
  /\ ret' = Call("calculate_current_monthly_income",
                 Ok(calculate_current_monthly_income(data)))
  /\ UNCHANGED <<calculator, data, prev>>

GetHouseholdSize ==
  /\ ret' = Call("get_household_size", get_household_size(data))
  /\ UNCHANGED <<calculator, data, prev>>

\* get_state_median_income and calculate_allowable_expenses, on the
\* arguments that determine_means_test_result and
\* calculate_disposable_income hand them.
GetStateMedianIncome ==
  /\ get_household_size(data).ok
  /\ ret' = Call("get_state_median_income",
                 Ok(get_state_median_income(calculator, StateOf(data),
                                            get_household_size(data).v)))
  /\ UNCHANGED <<calculator, data, prev>>

CalculateAllowableExpenses ==
  /\ get_household_size(data).ok
  /\ ret' = Call("calculate_allowable_expenses",
                 calculate_allowable_expenses(calculator, data,
                                              get_household_size(data).v))
  /\ UNCHANGED <<calculator, data, prev>>

CalculateSecuredDebtPayments ==
  /\ ret' = Call("calculate_secured_debt_payments",
                 Ok(calculate_secured_debt_payments(data)))
  /\ UNCHANGED <<calculator, data, prev>>

CalculatePriorityDebtPayments ==
  /\ ret' = Call("calculate_priority_debt_payments",
                 Ok(calculate_priority_debt_payments(data)))
  /\ UNCHANGED <<calculator, data, prev>>

CalculateUnsecuredDebt ==
  /\ ret' = Call("calculate_unsecured_debt", Ok(calculate_unsecured_debt(data)))
  /\ UNCHANGED <<calculator, data, prev>>

CalculateDisposableIncome ==
  /\ ret' = Call("calculate_disposable_income", calculate_disposable_income(calculator, data))
  /\ UNCHANGED <<calculator, data, prev>>

DetermineMeansTestResult ==
  /\ ret' = Call("determine_means_test_result", determine_means_test_result(calculator, data))
  /\ UNCHANGED <<calculator, data, prev>>

CalculateMeansTest ==
  \E now \in 0..MaxClock :
    /\ ret' = Call("calculate_means_test", calculate_means_test(data, now))
    /\ prev' = IF ret.fn = "calculate_means_test" THEN ret ELSE prev
    /\ UNCHANGED <<calculator, data>>

\* generate_means_test_report on the record and the result just returned.
GenerateMeansTestReport ==
  /\ ret.fn \in {"determine_means_test_result", "calculate_means_test"}
  /\ ret.out.ok
  /\ ret' = [fn |-> "generate_means_test_report", arg |-> ret.out.v,
             out |-> Ok(generate_means_test_report(data, ret.out.v))]
  /\ UNCHANGED <<calculator, data, prev>>

Next ==
  \/ CalculateCurrentMonthlyIncome
  \/ GetHouseholdSize
  \/ GetStateMedianIncome
  \/ CalculateAllowableExpenses
  \/ CalculateSecuredDebtPayments
  \/ CalculatePriorityDebtPayments
  \/ CalculateUnsecuredDebt
  \/ CalculateDisposableIncome
  \/ DetermineMeansTestResult
  \/ CalculateMeansTest
  \/ GenerateMeansTestReport

Spec == Init /\ [][Next]_vars

(***************************************************************************)
(* What the properties read.                                               *)
(***************************************************************************)
\* The last call returned a means-test result (with or without the
\* timestamp of calculate_means_test).
IsResult ==
  /\ ret.fn \in {"determine_means_test_result", "calculate_means_test"}
  /\ ret.out.ok

R == ret.out.v

Stage2Fields == {"step2_result", "step2_reason"}

Stage2Details == {"disposable_monthly_income", "five_year_disposable_income"}

\* The inputs of Step 1, computed from the record.
IncomeOf(d) == calculate_current_monthly_income(d)

\* The instance the last call ran on: calculate_means_test makes its own.
Self == IF ret.fn = "calculate_means_test" THEN MeansTestCalculator ELSE calculator

MedianOf(d) ==
  get_state_median_income(Self, StateOf(d), get_household_size(d).v)

\* Step 2 ran and reported these figures.
Stage2Ran == IsResult /\ R.step2_required

FiveYear == R.details.five_year_disposable_income

UnsecuredTotal == calculate_unsecured_debt(data)

\* C1: whenever the current monthly income is at most the state median for
\* the household size (equality included), determine_means_test_result
\* returns Step 1 PASS, final PASS, chapter 7 eligible, chapter 13 not
\* required, step 2 not required, and no Step 2 figure.
C1_Stage1Pass ==
  (/\ ret.fn \in {"determine_means_test_result", "calculate_means_test"}
   /\ get_household_size(data).ok
   /\ IncomeOf(data) <= MedianOf(data))
  => /\ ret.out.ok
     /\ R.step1_result = "PASS"
     /\ R.means_test_result = "PASS"
     /\ R.chapter_7_eligible = TRUE
     /\ R.chapter_13_required = FALSE
     /\ R.step2_required = FALSE
     /\ DOMAIN R \cap Stage2Fields = {}
     /\ DOMAIN R.details \cap Stage2Details = {}

C1_Witness ==
  /\ IsResult
  /\ get_household_size(data).ok
  /\ IncomeOf(data) = MedianOf(data)
  /\ IncomeOf(data) > 0
  /\ R.step1_result = "PASS"

\* C2: a result holds the Step 2 result and figures if and only if its
\* Step 1 result is FAIL, and its Step 1 result is FAIL if and only if the
\* current monthly income is strictly greater than the state median.
C2_Stage2OnlyAfterStage1Fail ==
  IsResult =>
    /\ R.step1_result \in {"PASS", "FAIL"}
    /\ IF R.step1_result = "FAIL"
       THEN Stage2Fields \subseteq DOMAIN R /\ Stage2Details \subseteq DOMAIN R.details
       ELSE DOMAIN R \cap Stage2Fields = {} /\ DOMAIN R.details \cap Stage2Details = {}
    /\ (R.step1_result = "FAIL") <=> (IncomeOf(data) > MedianOf(data))

C2_Witness ==
  /\ IsResult
  /\ R.step1_result = "FAIL"
  /\ IncomeOf(data) = MedianOf(data) + 11 * Dollar
  /\ "step2_result" \in DOMAIN R

\* C3: the final result is the Step 2 result when Step 2 ran and the Step 1
\* result otherwise, and it is PASS or FAIL.
C3_FinalResult ==
  IsResult =>
    /\ R.means_test_result \in {"PASS", "FAIL"}
    /\ R.means_test_result =
         (IF R.step2_required THEN R.step2_result ELSE R.step1_result)

C3_Witness ==
  /\ Stage2Ran
  /\ R.step1_result = "FAIL"
  /\ R.step2_result = "PASS"
  /\ R.means_test_result = "PASS"

\* C4: chapter_7_eligible is true exactly when the final result is PASS and
\* chapter_13_required exactly when it is FAIL, so exactly one flag is true.
C4_ChapterFlags ==
  IsResult =>
    /\ R.chapter_7_eligible = (R.means_test_result = "PASS")
    /\ R.chapter_13_required = (R.means_test_result = "FAIL")
    /\ R.chapter_7_eligible # R.chapter_13_required

C4_Witness ==
  /\ Stage2Ran
  /\ FiveYear >= PassThreshold * Dollar
  /\ FiveYear <= FailThreshold * Dollar
  /\ R.means_test_result = "FAIL"
  /\ R.chapter_13_required

\* C5: when Step 2 runs, a five-year disposable income strictly below 7700
\* gives PASS and one strictly above 12850 gives FAIL with chapter 13
\* required, whatever the unsecured debt total.
C5_OutsideGrayZone ==
  Stage2Ran =>
    /\ FiveYear < PassThreshold * Dollar => R.step2_result = "PASS"
    /\ FiveYear > FailThreshold * Dollar
         => R.step2_result = "FAIL" /\ R.chapter_13_required

\* Below 7700 with unsecured debt that the percentage rule would fail.
C5_Witness ==
  /\ Stage2Ran
  /\ FiveYear < PassThreshold * Dollar
  /\ FiveYear > 0
  /\ UnsecuredTotal > 0
  /\ FiveYear * 100 >= PercentLimit * UnsecuredTotal
  /\ R.step2_result = "PASS"

\* C6: both threshold comparisons are strict: at exactly 7700 and at exactly
\* 12850 the Step 2 result is the one of the unsecured-debt percentage rule.
C6_BoundariesInGrayZone ==
  (Stage2Ran /\ FiveYear \in {PassThreshold * Dollar, FailThreshold * Dollar})
  => (R.step2_result = "FAIL"
        <=> (UnsecuredTotal # 0 /\ FiveYear * 100 >= PercentLimit * UnsecuredTotal))

C6_Witness ==
  /\ Stage2Ran
  /\ FiveYear = PassThreshold * Dollar
  /\ R.step2_result = "FAIL"

\* C7: in the gray zone (7700 to 12850 inclusive) a zero unsecured total
\* gives PASS; otherwise the result is FAIL exactly when the five-year
\* disposable income is at least 25 percent of the unsecured total.
C7_GrayZoneRule ==
  (Stage2Ran /\ FiveYear >= PassThreshold * Dollar /\ FiveYear <= FailThreshold * Dollar)
  => IF UnsecuredTotal = 0
     THEN R.step2_result = "PASS"
     ELSE IF UnsecuredTotal > 0
     THEN (R.step2_result = "FAIL")
            <=> (FiveYear * 100 >= PercentLimit * UnsecuredTotal)
     ELSE \* a negative total: the quotient is at least 25 iff
          (R.step2_result = "FAIL")
            <=> (FiveYear * 100 <= PercentLimit * UnsecuredTotal)

\* In the gray zone, at exactly 25 percent.
C7_Witness ==
  /\ Stage2Ran
  /\ FiveYear > PassThreshold * Dollar
  /\ FiveYear <= FailThreshold * Dollar
  /\ UnsecuredTotal > 0
  /\ FiveYear * 100 = PercentLimit * UnsecuredTotal
  /\ R.step2_result = "FAIL"

\* C8: the disposable monthly income that calculate_disposable_income
\* returns and that a result reports is never negative, and neither is the
\* five-year disposable income.
C8_DisposableNonNegative ==
  /\ (ret.fn = "calculate_disposable_income" /\ ret.out.ok) => ret.out.v >= 0
  /\ Stage2Ran => /\ R.details.disposable_monthly_income >= 0
                  /\ FiveYear >= 0

\* Expenses and debt payments exceed the income.
C8_Witness ==
  /\ ret.fn = "calculate_disposable_income"
  /\ ret.out.ok
  /\ IncomeOf(data)
       - SumExpenses(calculate_allowable_expenses(Self, data, get_household_size(data).v).v)
       - calculate_secured_debt_payments(data)
       - calculate_priority_debt_payments(data) < 0
  /\ ret.out.v = 0

\* C9: get_household_size has no failure mode and returns an integer >= 1,
\* for any marital status value (missing or not a text included) and any
\* dependents value.
C9_HouseholdSizeTotal ==
  ret.fn = "get_household_size" => ret.out.ok /\ ret.out.v >= 1

\* C10 as stated: two calls of calculate_means_test on the same record
\* return results equal in every field.
C10_ByteIdentical ==
  (ret.fn = "calculate_means_test" /\ prev.fn = "calculate_means_test")
  => ret.out = prev.out

\* C10 as amended: two calls of calculate_means_test on the same record
\* both raise the same exception or return results with the same fields,
\* equal in every field other than calculation_date.
C10_IdenticalButDate ==
  (ret.fn = "calculate_means_test" /\ prev.fn = "calculate_means_test")
  => IF ret.out.ok
     THEN /\ prev.out.ok
          /\ DOMAIN ret.out.v = DOMAIN prev.out.v
          /\ \A f \in DOMAIN ret.out.v \ {"calculation_date"} :
               ret.out.v[f] = prev.out.v[f]
     ELSE ret.out = prev.out

C10_Witness ==
  /\ ret.fn = "calculate_means_test"
  /\ prev.fn = "calculate_means_test"
  /\ ret.out.ok
  /\ prev.out.ok
  /\ ret.out.v.calculation_date # prev.out.v.calculation_date
  /\ ret.out.v.step2_required

\* The base monthly income of a record, as float() reads it.
BaseIncome(d) == Float(Get(d, "monthly_income", Num(0)))

\* The base incomes that the income comparison puts in place of the record's.
ComparedIncomes == {Num(5000), Num(6789), Num(6800), Num(6886)}

\* The record with another base monthly income and nothing else changed.
WithIncome(d, inc) == [d EXCEPT !.monthly_income = inc]

\* C11: monotonicity in income: when a record gets the final result PASS,
\* every record that differs from it only in a lower base monthly income
\* gets PASS too.
C11_MonotoneInIncome ==
  (IsResult /\ BaseIncome(data).ok /\ R.means_test_result = "PASS")
  => \A inc \in ComparedIncomes :
       BaseIncome(WithIncome(data, inc)).v <= BaseIncome(data).v
       => LET lower == determine_means_test_result(Self, WithIncome(data, inc))
          IN lower.ok /\ lower.v.means_test_result = "PASS"

\* A pass in the gray zone, compared with a lower income that still
\* reaches Step 2.
C11_Witness ==
  /\ Stage2Ran
  /\ R.means_test_result = "PASS"
  /\ FiveYear >= PassThreshold * Dollar
  /\ UnsecuredTotal > 0
  /\ BaseIncome(data).v = 6886 * Dollar
  /\ determine_means_test_result(Self, WithIncome(data, Num(6800))).v.step2_required

\* C12: the calculation never raises for a malformed amount: whenever the
\* household size is computed, determine_means_test_result returns a
\* result, whatever the amounts of the record are.
C12_NeverRaises ==
  (/\ ret.fn \in {"determine_means_test_result", "calculate_means_test"}
   /\ get_household_size(data).ok)
  => ret.out.ok /\ R.means_test_result \in {"PASS", "FAIL"}

\* The median of the record's state is the default, not a row of the table.
UsesFallback(self, d) ==
  ~(StateOf(d).t = "str" /\ StateOf(d).s \in DOMAIN self.median_income_data)

\* Two details records differ somewhere else than in the median.
DifferBesidesMedian(a, b) ==
  \/ DOMAIN a # DOMAIN b
  \/ \E f \in DOMAIN a \ {"state_median_income"} : a[f] # b[f]

MedianEntryMissing(self, d) ==
  /\ ~UsesFallback(self, d)
  /\ SizeKey(get_household_size(d).v)
       \notin DOMAIN self.median_income_data[StateOf(d).s]

\* A row of a standards table lacks the entry of the size key looked up.
StandardEntryMissing(self, d) ==
  LET size_key == SizeKey(get_household_size(d).v)
  IN \/ \E c \in DOMAIN self.irs_standards :
          size_key \notin DOMAIN self.irs_standards[c]
     \/ size_key \notin DOMAIN self.housing_standards.housing_and_utilities
     \/ size_key \notin DOMAIN self.transportation_standards.ownership_costs
     \/ size_key \notin DOMAIN self.transportation_standards.operating_costs

\* C14: a configuration defect is fatal: when a table lacks the entry of the
\* size key that the calculation looks up (the median row in Step 1, the
\* standards once Step 1 fails), determine_means_test_result raises and
\* returns no PASS or FAIL result.
C14_DefectIsFatal ==
  (/\ ret.fn = "determine_means_test_result"
   /\ get_household_size(data).ok
   /\ \/ MedianEntryMissing(calculator, data)
      \/ /\ IncomeOf(data) > MedianOf(data)
         /\ StandardEntryMissing(calculator, data))
  => ~ret.out.ok

\* The amount read back from the cents of a report line is the amount x
\* (x in 1/60 dollar, so x / 60 = cents / 100).
ReadsBack(cents, x) == 100 * x = Dollar * cents

\* C15: every numeric field that generate_means_test_report writes reads
\* back from the report as exactly the value in the details of the result.
C15_ReportRoundTrip ==
  ret.fn = "generate_means_test_report" =>
    LET report == ret.out.v
        details == ret.arg.details
    IN /\ ReadsBack(report.current_monthly_income, details.current_monthly_income)
       /\ ReadsBack(report.state_median_income, details.state_median_income)
       /\ report.household_size = details.household_size
       /\ ret.arg.step2_required =>
            LET step2 == report.step2[1]
            IN /\ \A k \in DOMAIN details.allowable_expenses :
                    ReadsBack(step2.allowable_expenses[k],
                              details.allowable_expenses[k])
               /\ ReadsBack(step2.secured_payments, details.secured_payments)
               /\ ReadsBack(step2.priority_payments, details.priority_payments)
               /\ ReadsBack(step2.disposable_monthly_income,
                            details.disposable_monthly_income)
               /\ ReadsBack(step2.five_year_disposable_income,
                            details.five_year_disposable_income)

\* C16: when Stage 2 runs, the reported disposable monthly income is
\* max(0, current monthly income - the reported allowable expenses - the
\* reported secured payments - the reported priority payments), and the
\* reported five-year disposable income is that figure times 60 and is the
\* figure the 7700 and 12850 thresholds decide on.
C16_DisposableFormula ==
  Stage2Ran =>
    LET details == R.details
        remainder == details.current_monthly_income
                       - SumExpenses(details.allowable_expenses)
                       - details.secured_payments
                       - details.priority_payments
    IN /\ details.disposable_monthly_income
            = (IF remainder > 0 THEN remainder ELSE 0)
       /\ details.five_year_disposable_income
            = details.disposable_monthly_income * PlanMonths
       /\ details.five_year_disposable_income < PassThreshold * Dollar
            => R.step2_result = "PASS"
       /\ details.five_year_disposable_income > FailThreshold * Dollar
            => R.step2_result = "FAIL"

C16_Witness ==
  /\ Stage2Ran
  /\ R.details.disposable_monthly_income > 0
  /\ R.details.secured_payments > 0
  /\ R.details.priority_payments > 0
  /\ R.details.five_year_disposable_income > FailThreshold * Dollar

\* The marital statuses that the household rule names as not married.
NotMarriedStatuses ==
  {Absent, Text("single"), Text("divorced"), Text("separated"), Text("widowed")}

DependentCount(d) == Len(Get(d, "dependents", List(<<>>)).items)

\* C17: get_household_size returns 1, plus 1 when the marital status is
\* married, plus the number of dependents; single, divorced, separated,
\* widowed and a missing status add nothing; there is no upper bound, and the
\* size reported in the result is this size, above 8 included.
C17_HouseholdSizeRule ==
  /\ (ret.fn = "get_household_size" /\ ret.out.ok) =>
       /\ data.marital_status \in NotMarriedStatuses
            => ret.out.v = 1 + DependentCount(data)
       /\ (data.marital_status.t = "str"
           /\ Lower(data.marital_status.s) = "married")
            => ret.out.v = 1 + 1 + DependentCount(data)
  /\ IsResult =>
       /\ data.marital_status \in NotMarriedStatuses
            => R.details.household_size = 1 + DependentCount(data)
       /\ (data.marital_status.t = "str"
           /\ Lower(data.marital_status.s) = "married")
            => R.details.household_size = 1 + 1 + DependentCount(data)

C17_Witness ==
  /\ IsResult
  /\ data.marital_status = Text("Married")
  /\ DependentCount(data) >= MaxSizeKey - 1
  /\ R.details.household_size > MaxSizeKey

\* C18: for a household of more than 8 people the median income looked up is
\* the entry of size 8 of the row of the state, and the standard allowances
\* are the entries of size 8 of the standards tables, with nothing added for
\* the people above 8.
C18_LookupsCapAtEight ==
  (get_household_size(data).ok /\ get_household_size(data).v > MaxSizeKey) =>
    /\ (ret.fn = "get_state_median_income"
        /\ StateOf(data).t = "str"
        /\ StateOf(data).s \in DOMAIN calculator.median_income_data)
         => ret.out.v = calculator.median_income_data[StateOf(data).s][MaxSizeKey] * Dollar
    /\ (ret.fn = "calculate_allowable_expenses" /\ ret.out.ok) =>
         /\ \A k \in DOMAIN calculator.irs_standards :
              ret.out.v[k] = calculator.irs_standards[k][MaxSizeKey] * Dollar
         /\ ret.out.v.housing_and_utilities <=
              calculator.housing_standards.housing_and_utilities[MaxSizeKey] * Dollar
         /\ ret.out.v.transportation <=
              (calculator.transportation_standards.ownership_costs[MaxSizeKey]
               + calculator.transportation_standards.operating_costs[MaxSizeKey])
              * Dollar
    /\ IsResult =>
         /\ StateOf(data) = Text("California")
              => R.details.state_median_income
                   = median_income_data["California"][MaxSizeKey] * Dollar
         /\ Stage2Ran
              => R.details.allowable_expenses.food
                   = irs_standards.food[MaxSizeKey] * Dollar

C18_Witness ==
  /\ ret.fn = "calculate_allowable_expenses"
  /\ ret.out.ok
  /\ get_household_size(data).ok
  /\ get_household_size(data).v > MaxSizeKey
  /\ ret.out.v.housing_and_utilities
       = calculator.housing_standards.housing_and_utilities[MaxSizeKey] * Dollar

\* The sum of the additional-income amounts that parse as non-negative
\* numbers.
RECURSIVE SumParseableNonNegative(_)
SumParseableNonNegative(sources) ==
  IF sources = <<>> THEN 0
  ELSE LET amount == Float(Get(Head(sources), "amount", Num(0)))
       IN (IF amount.ok /\ amount.v >= 0 THEN amount.v ELSE 0)
          + SumParseableNonNegative(Tail(sources))

\* C19: calculate_current_monthly_income returns the base monthly figure, or
\* zero when the base figure is unparseable, plus the sum of the
\* additional-income amounts that parse as non-negative numbers, and the
\* figure is never negative.
C19_IncomeSumsParseable ==
  (ret.fn = "calculate_current_monthly_income"
   /\ Get(data, "additional_income", List(<<>>)).t = "list") =>
    /\ ret.out.v
         = (IF BaseIncome(data).ok THEN BaseIncome(data).v ELSE 0)
           + SumParseableNonNegative(Get(data, "additional_income", List(<<>>)).items)
    /\ ret.out.v >= 0

RECURSIVE SumMonths(_)
SumMonths(months) ==
  IF months = <<>> THEN 0
  ELSE Float(Head(months)).v + SumMonths(Tail(months))

\* C20: when the record holds the incomes of the six trailing months, the
\* current monthly income that Stage 1 compares with the median is their
\* arithmetic mean.
C20_SixMonthMean ==
  (IsResult /\ data.form_b122.t = "list"
   /\ Len(data.form_b122.items) = HistoryMonths) =>
    /\ R.details.current_monthly_income * HistoryMonths
         = SumMonths(data.form_b122.items)
    /\ R.step1_result = "PASS"
         <=> SumMonths(data.form_b122.items)
               <= R.details.state_median_income * HistoryMonths

\* The household size of the record, capped for the lookups.
CappedSize(d) ==
  IF get_household_size(d).v > MaxSizeKey THEN MaxSizeKey
  ELSE get_household_size(d).v

\* The record with other actual expenses and nothing else changed.
WithExpenses(d, exp) == [d EXCEPT !.monthly_expenses = exp]

\* Actual expenses that claim an amount for food as well.
ClaimedFood ==
  [k \in DOMAIN NoExpenses \cup {"food"} |->
     IF k = "food" THEN Num(2000) ELSE NoExpenses[k]]

\* The actual expenses that the comparison puts in place of the record's.
ComparedExpenses ==
  {Absent, ClaimedFood, Expenses(Num(900), Num(700), Num(4185))}

\* C21: food, housekeeping supplies, apparel and services, personal care and
\* miscellaneous are the IRS standards of the capped household size, and a
\* record that differs only in its actual expenses gets the same five
\* amounts.
C21_IrsStandardsOutright ==
  (ret.fn = "calculate_allowable_expenses" /\ ret.out.ok) =>
    /\ calculator = MeansTestCalculator =>
         \A k \in DOMAIN irs_standards :
           ret.out.v[k] = irs_standards[k][CappedSize(data)] * Dollar
    /\ \A exp \in ComparedExpenses :
         LET other == calculate_allowable_expenses(
                        calculator, WithExpenses(data, exp),
                        get_household_size(data).v)
         IN /\ other.ok
            /\ \A k \in DOMAIN irs_standards : other.v[k] = ret.out.v[k]

C21_Witness ==
  /\ ret.fn = "calculate_allowable_expenses"
  /\ ret.out.ok
  /\ get_household_size(data).v = 2
  /\ Get(data, "monthly_expenses", NoExpenses).utilities = Num(400)
  /\ ret.out.v.food = irs_standards.food[2] * Dollar

\* The amount that the record claims for one item of its actual expenses,
\* a missing item counted as 0.
Claimed(d, k) == Float(Get(Get(d, "monthly_expenses", NoExpenses), k, Num(0))).v

ActualHousing(d) == Claimed(d, "rent_mortgage") + Claimed(d, "utilities")

ActualTransportation(d) ==
  Claimed(d, "car_payment") + Claimed(d, "car_insurance")
  + Claimed(d, "gas_maintenance")

StandardHousing(d) ==
  housing_standards.housing_and_utilities[CappedSize(d)] * Dollar

StandardTransportation(d) ==
  (transportation_standards.ownership_costs[CappedSize(d)]
   + transportation_standards.operating_costs[CappedSize(d)]) * Dollar

\* C22: the housing amount is the lesser of the actual housing (rent or
\* mortgage plus utilities) and the housing standard of the capped household
\* size, and the transportation amount is the lesser of the actual
\* transportation (car payment plus car insurance plus gas and maintenance)
\* and the ownership plus operating standard; neither exceeds its standard
\* or its actual.
C22_LesserOfActualAndStandard ==
  (ret.fn = "calculate_allowable_expenses" /\ ret.out.ok
   /\ calculator = MeansTestCalculator) =>
    /\ ret.out.v.housing_and_utilities
         = (IF ActualHousing(data) <= StandardHousing(data)
            THEN ActualHousing(data) ELSE StandardHousing(data))
    /\ ret.out.v.housing_and_utilities <= StandardHousing(data)
    /\ ret.out.v.housing_and_utilities <= ActualHousing(data)
    /\ ret.out.v.transportation
         = (IF ActualTransportation(data) <= StandardTransportation(data)
            THEN ActualTransportation(data) ELSE StandardTransportation(data))
    /\ ret.out.v.transportation <= StandardTransportation(data)
    /\ ret.out.v.transportation <= ActualTransportation(data)

C22_Witness ==
  /\ ret.fn = "calculate_allowable_expenses"
  /\ ret.out.ok
  /\ calculator = MeansTestCalculator
  /\ Get(data, "monthly_expenses", NoExpenses).utilities = Num(400)
  /\ Get(data, "monthly_expenses", NoExpenses).gas_maintenance = Absent
  /\ ret.out.v.housing_and_utilities = StandardHousing(data)
  /\ ret.out.v.housing_and_utilities < ActualHousing(data)
  /\ ret.out.v.transportation = ActualTransportation(data)
  /\ ret.out.v.transportation < StandardTransportation(data)

\* The sum of the standard allowances of the capped household size.
SumStandards(d) ==
  (irs_standards.food[CappedSize(d)]
   + irs_standards.housekeeping_supplies[CappedSize(d)]
   + irs_standards.apparel_and_services[CappedSize(d)]
   + irs_standards.personal_care[CappedSize(d)]
   + irs_standards.miscellaneous[CappedSize(d)]) * Dollar
  + StandardHousing(d) + StandardTransportation(d)

\* C23: no entry of the allowable expenses is an uncapped actual expense:
\* the health insurance, medical, phone and internet and entertainment
\* amounts do not exceed what the record's household size allows, so the
\* total is at most the sum of the standard allowances of that size.
C23_TotalBoundedByStandards ==
  (ret.fn = "calculate_allowable_expenses" /\ ret.out.ok
   /\ calculator = MeansTestCalculator) =>
    SumExpenses(ret.out.v) <= SumStandards(data)

\* C24: every allowable-expense amount, the secured payment total, the
\* priority payment total and the unsecured debt total are at least 0,
\* whatever the signs of the amounts in the record.
C24_AmountsNonNegative ==
  /\ (ret.fn = "calculate_allowable_expenses" /\ ret.out.ok) =>
       \A k \in DOMAIN ret.out.v : ret.out.v[k] >= 0
  /\ ret.fn \in {"calculate_secured_debt_payments",
                 "calculate_priority_debt_payments",
                 "calculate_unsecured_debt"} => ret.out.v >= 0

IsSecured(liability) == Get(liability, "type", PyNone) = Text("secured")

IsPriority(liability) == Get(liability, "type", PyNone) = Text("priority")

\* The sum of one field over the liabilities of a list, a missing or
\* unparseable field counted as 0.
RECURSIVE TotalOf(_, _)
TotalOf(liabilities, field) ==
  IF liabilities = <<>> THEN 0
  ELSE (IF Float(Get(Head(liabilities), field, Num(0))).ok
        THEN Float(Get(Head(liabilities), field, Num(0))).v ELSE 0)
       + TotalOf(Tail(liabilities), field)

\* C25: calculate_secured_debt_payments returns the sum of the monthly
\* payments of the liabilities tagged secured and of no other liability; a
\* secured liability whose monthly payment is missing or unparseable adds 0
\* and the others still count.
C25_SecuredPayments ==
  ret.fn = "calculate_secured_debt_payments" =>
    ret.out.v = TotalOf(SelectSeq(Liabilities(data), IsSecured), "monthly_payment")

C25_Witness ==
  /\ ret.fn = "calculate_secured_debt_payments"
  /\ \E i \in DOMAIN Liabilities(data) :
       /\ IsSecured(Liabilities(data)[i])
       /\ ~Float(Liabilities(data)[i].monthly_payment).ok
  /\ \E i \in DOMAIN Liabilities(data) : Liabilities(data)[i] = Secured(86)
  /\ ret.out.v = 86 * Dollar

\* C26: calculate_priority_debt_payments returns the sum of amount / 60
\* over the liabilities tagged priority and over no other liability; a
\* monthly payment stated on a priority liability is not used.
C26_PriorityPayments ==
  ret.fn = "calculate_priority_debt_payments" =>
    ret.out.v * PlanMonths
      = TotalOf(SelectSeq(Liabilities(data), IsPriority), "amount")

C26_Witness ==
  /\ ret.fn = "calculate_priority_debt_payments"
  /\ \E i \in DOMAIN Liabilities(data) :
       /\ IsPriority(Liabilities(data)[i])
       /\ Liabilities(data)[i].monthly_payment = Num(75)
  /\ \E i \in DOMAIN Liabilities(data) : ~IsPriority(Liabilities(data)[i])
  /\ ret.out.v * PlanMonths = 120 * Dollar

\* The recognized jurisdictions: the fifty states, which are the rows of
\* the table, and the District of Columbia.
RecognizedJurisdictions == DOMAIN median_income_data \cup {"District of Columbia"}

\* C27: for a recognized jurisdiction get_state_median_income reads an entry
\* of the row of that jurisdiction, never the fallback default.
C27_TableCoversJurisdictions ==
  (ret.fn = "get_state_median_income" /\ calculator = MeansTestCalculator
   /\ StateOf(data).t = "str" /\ StateOf(data).s \in RecognizedJurisdictions) =>
    /\ StateOf(data).s \in DOMAIN calculator.median_income_data
    /\ ret.out.v
         = calculator.median_income_data[StateOf(data).s][CappedSize(data)] * Dollar

\* The record with one more dependent and nothing else changed.
WithOneMoreDependent(d) ==
  [d EXCEPT !.dependents =
     List(Append(Get(d, "dependents", List(<<>>)).items, Dependent))]

\* The record with the marital status married and nothing else changed.
WithSpouse(d) == [d EXCEPT !.marital_status = Text("married")]

\* The records that differ from a record in one more household member.
OneMoreMember(d) ==
  {WithOneMoreDependent(d)}
  \cup (IF get_household_size(WithSpouse(d)).v > get_household_size(d).v
        THEN {WithSpouse(d)} ELSE {})

\* Each row of a table is non-decreasing in the household size.
NonDecreasing(table) ==
  \A k \in DOMAIN table :
    \A size \in 1..(MaxSizeKey - 1) : table[k][size] <= table[k][size + 1]

\* C28: monotonicity in household size: when a record gets the final result
\* PASS, the record with one more dependent, and the record changed to
\* married, get PASS too; the median income and every standard allowance
\* are non-decreasing in the household size.
C28_MonotoneInHouseholdSize ==
  /\ NonDecreasing(median_income_data)
  /\ NonDecreasing(irs_standards)
  /\ NonDecreasing(housing_standards)
  /\ NonDecreasing(transportation_standards)
  /\ (IsResult /\ R.means_test_result = "PASS") =>
       \A larger \in OneMoreMember(data) :
         LET other == determine_means_test_result(Self, larger)
         IN other.ok /\ other.v.means_test_result = "PASS"

\* A record that passes in Step 2, and with a spouse added passes in Step 2
\* again with larger standard allowances and less disposable income.
C28_Witness ==
  /\ Stage2Ran
  /\ R.means_test_result = "PASS"
  /\ FiveYear > 0
  /\ WithSpouse(data) \in OneMoreMember(data)
  /\ LET other == determine_means_test_result(Self, WithSpouse(data)).v
     IN /\ other.step2_required
        /\ other.details.household_size = R.details.household_size + 1
        /\ other.details.allowable_expenses.food
             > R.details.allowable_expenses.food
        /\ other.details.five_year_disposable_income < FiveYear

\* The record has no court_jurisdiction, or one without a state.
StateMissing(d) ==
  \/ d.court_jurisdiction = Absent
  \/ d.court_jurisdiction = NoJurisdiction

\* The record with the state California stated and nothing else changed.
WithCalifornia(d) ==
  [d EXCEPT !.court_jurisdiction = [state |-> Text("California")]]

\* C29: a record without a state is judged on the California row of its
\* household size, not on the fallback default, reports the state
\* California, and gets the verdict and the details of the same record
\* stating California.
C29_MissingStateIsCalifornia ==
  (IsResult /\ StateMissing(data)) =>
    LET stated == determine_means_test_result(Self, WithCalifornia(data))
    IN /\ R.details.state = Text("California")
       /\ R.details.state_median_income
            = Self.median_income_data["California"][CappedSize(data)] * Dollar
       /\ stated.ok
       /\ \A f \in DOMAIN stated.v : R[f] = stated.v[f]

C29_Witness ==
  /\ IsResult
  /\ data.court_jurisdiction = NoJurisdiction
  /\ R.details.household_size = 2
  /\ R.details.state_median_income # DefaultMedian * Dollar
  /\ R.step2_required = FALSE

\* The fields of a result that the time of the call must not reach.
ClockFreeFields ==
  {"step1_result", "step1_reason", "step2_required", "means_test_result",
   "chapter_7_eligible", "chapter_13_required", "details",
   "calculation_version"}

\* C30: clock independence: the result of calculate_means_test is, in every
\* field other than calculation_date, the result that a call at any other
\* time returns, and an earlier call on the same record at another time
\* returned the same step results, reasons, final result, chapter flags and
\* details.
C30_ClockIndependent ==
  (ret.fn = "calculate_means_test" /\ ret.out.ok) =>
    /\ \A now \in 0..MaxClock :
         LET again == calculate_means_test(data, now)
         IN /\ again.ok
            /\ again.v.calculation_date = now
            /\ \A f \in DOMAIN R \ {"calculation_date"} : again.v[f] = R[f]
    /\ prev.fn = "calculate_means_test" =>
         /\ prev.out.ok
         /\ \A f \in ClockFreeFields : prev.out.v[f] = R[f]
         /\ R.step2_required =>
              /\ prev.out.v.step2_result = R.step2_result
              /\ prev.out.v.step2_reason = R.step2_reason

C30_Witness ==
  /\ ret.fn = "calculate_means_test"
  /\ prev.fn = "calculate_means_test"
  /\ ret.out.ok
  /\ prev.out.ok
  /\ prev.out.v.calculation_date < ret.out.v.calculation_date
  /\ R.step2_required
  /\ R.means_test_result = "PASS"
  /\ UnsecuredTotal > 0

====
